---- MODULE Spec2Model ----
(***************************************************************************)
(* Model of src/app_divida_publica.py: a Streamlit page that loads two     *)
(* CSV tables (spending by function, debt stock by month), cleans them and *)
(* renders three tabs, the third one calling gerar_insight_avancado.       *)
(*                                                                         *)
(* Representation.                                                         *)
(*  - A Python string the code inspects character by character (a date     *)
(*    cell, a money cell, a debt column name, the analysis option) is a    *)
(*    sequence of one-character strings: "jan/23" is                       *)
(*    <<"j","a","n","/","2","3">>.  A string the code only compares for    *)
(*    equality (a function name, a spending column name) is a TLA+ string. *)
(*  - A DataFrame is [columns |-> sequence of names, rows |-> sequence of  *)
(*    rows], a row being a function from column names to cells.  The input *)
(*    tables are what pd.read_csv returns, cell by cell as astype(str)     *)
(*    prints them.                                                         *)
(*  - Money is fixed point, in centavos (1/100): "1.234,56" is 123456.     *)
(*  - A Timestamp is [ano, mes, dia]; None/NaT/NaN is the record NaT.      *)
(***************************************************************************)
EXTENDS Integers, Sequences, FiniteSets, TLC

VARIABLES
    pc,               \* position of the script / of the function under check
    data_str,         \* argument of traduzir_data_pt_br
    data,             \* its result
    arq_gastos,       \* the file behind URL_GASTOS
    arq_divida,       \* the file behind URL_DIVIDA
    leituras,         \* the pd.read_csv calls made so far: <<url, encoding>>
    df_gastos_bruto,  \* line 78
    df_divida_bruto,  \* line 79
    df_gastos,        \* line 186
    df_divida,        \* line 187
    erros,            \* the st.error messages shown so far
    abas,             \* what each rendered tab shows
    pergunta,         \* argument of gerar_insight_avancado
    insight           \* its result

vars == <<pc, data_str, data, arq_gastos, arq_divida, leituras, df_gastos_bruto,
          df_divida_bruto, df_gastos, df_divida, erros, abas, pergunta, insight>>

\* The value of a variable a specification does not use.
Ocioso == <<>>

-----------------------------------------------------------------------------
(* Strings as sequences of characters *)

Digitos == {"0", "1", "2", "3", "4", "5", "6", "7", "8", "9"}

DigitVal(c) ==
    CASE c = "0" -> 0 [] c = "1" -> 1 [] c = "2" -> 2 [] c = "3" -> 3
      [] c = "4" -> 4 [] c = "5" -> 5 [] c = "6" -> 6 [] c = "7" -> 7
      [] c = "8" -> 8 [] c = "9" -> 9

\* str.isdigit(): non-empty and every character a digit.
IsDigit(s) == Len(s) > 0 /\ \A i \in 1..Len(s) : s[i] \in Digitos

\* The number a string of digits denotes.
RECURSIVE DigitsValue(_)
DigitsValue(s) ==
    IF Len(s) = 0 THEN 0
    ELSE 10 * DigitsValue(SubSeq(s, 1, Len(s) - 1)) + DigitVal(s[Len(s)])

\* pat in s
Contains(pat, s) ==
    \E i \in 1..(Len(s) - Len(pat) + 1) : SubSeq(s, i, i + Len(pat) - 1) = pat

\* s.strip()
RECURSIVE LStrip(_)
LStrip(s) == IF Len(s) > 0 /\ s[1] = " " THEN LStrip(Tail(s)) ELSE s

RECURSIVE RStrip(_)
RStrip(s) ==
    IF Len(s) > 0 /\ s[Len(s)] = " " THEN RStrip(SubSeq(s, 1, Len(s) - 1)) ELSE s

Strip(s) == RStrip(LStrip(s))

\* c.lower(), on the letters the inputs use
LowerChar(c) ==
    CASE c = "J" -> "j" [] c = "A" -> "a" [] c = "N" -> "n" [] c = "F" -> "f"
      [] c = "E" -> "e" [] c = "V" -> "v" [] c = "M" -> "m" [] c = "R" -> "r"
      [] c = "D" -> "d" [] c = "Z" -> "z" [] c = "T" -> "t" [] c = "O" -> "o"
      [] c = "L" -> "l" [] c = "I" -> "i" [] c = "X" -> "x" [] c = "S" -> "s"
      [] OTHER -> c

Lower(s) == [i \in 1..Len(s) |-> LowerChar(s[i])]

\* s.split(sep): the pieces between the occurrences of the character sep
RECURSIVE Split(_, _)
Split(s, sep) ==
    IF \A i \in 1..Len(s) : s[i] # sep THEN <<s>>
    ELSE LET k == CHOOSE i \in 1..Len(s) :
                      s[i] = sep /\ \A j \in 1..(i - 1) : s[j] # sep
         IN <<SubSeq(s, 1, k - 1)>> \o Split(SubSeq(s, k + 1, Len(s)), sep)

\* s[:n]
Prefix(s, n) == SubSeq(s, 1, IF Len(s) < n THEN Len(s) ELSE n)

\* s.replace(c, r) for a character c and a (possibly empty) replacement r
RECURSIVE Replace(_, _, _)
Replace(s, c, r) ==
    IF Len(s) = 0 THEN <<>>
    ELSE (IF s[1] = c THEN r ELSE <<s[1]>>) \o Replace(Tail(s), c, r)

\* int(s): the value, or -1 where Python raises ValueError
IntPy(s) == IF IsDigit(Strip(s)) THEN DigitsValue(Strip(s)) ELSE -1

-----------------------------------------------------------------------------
(* traduzir_data_pt_br *)

NaT == [nat |-> TRUE]

\* pd.isna(x): the missing cell of a column read by pd.read_csv
NaN == <<"NaN">>

meses ==
    [m \in {<<"j","a","n">>, <<"f","e","v">>, <<"m","a","r">>, <<"a","b","r">>,
            <<"m","a","i">>, <<"j","u","n">>, <<"j","u","l">>, <<"a","g","o">>,
            <<"s","e","t">>, <<"o","u","t">>, <<"n","o","v">>, <<"d","e","z">>} |->
        CASE m = <<"j","a","n">> -> 1  [] m = <<"f","e","v">> -> 2
          [] m = <<"m","a","r">> -> 3  [] m = <<"a","b","r">> -> 4
          [] m = <<"m","a","i">> -> 5  [] m = <<"j","u","n">> -> 6
          [] m = <<"j","u","l">> -> 7  [] m = <<"a","g","o">> -> 8
          [] m = <<"s","e","t">> -> 9  [] m = <<"o","u","t">> -> 10
          [] m = <<"n","o","v">> -> 11 [] m = <<"d","e","z">> -> 12]

\* pd.to_datetime(f"{ano}-{mes:02}-01", format="%Y-%m-%d"): %Y takes exactly
\* four digits, and a Timestamp (nanoseconds since 1970 in 64 bits) spans
\* 1677-09-21 .. 2262-04-11; anything else raises, which the caller's
\* except turns into None.
to_datetime(ano, mes) ==
    IF /\ ano >= 1000 /\ ano <= 9999
       /\ (ano > 1677 \/ (ano = 1677 /\ mes >= 10))
       /\ (ano < 2262 \/ (ano = 2262 /\ mes <= 4))
    THEN [ano |-> ano, mes |-> mes, dia |-> 1]
    ELSE NaT

\* The year of line 57-61; -1 where int() raises.
AnoFullMut(parte_ano) ==
    IF Len(parte_ano) = 2
    THEN (IF IntPy(parte_ano) < 0 THEN -1 ELSE 1900 + IntPy(parte_ano))
    ELSE IntPy(parte_ano)

AnoFull(parte_ano) ==
    IF Len(parte_ano) = 2
    THEN (IF IntPy(parte_ano) < 0 THEN -1 ELSE 2000 + IntPy(parte_ano))
    ELSE IntPy(parte_ano)

traduzir_data_pt_br(s0) ==
    IF s0 = NaN THEN NaT
    ELSE
    LET s == Lower(Strip(s0)) IN
    IF Contains(<<"/">>, s)
    THEN LET parte_mes == Prefix(Split(s, "/")[1], 3)
             parte_ano == Split(s, "/")[2]
         IN IF parte_mes \notin DOMAIN meses THEN NaT
            ELSE IF AnoFull(parte_ano) < 0 THEN NaT
            ELSE to_datetime(AnoFull(parte_ano), meses[parte_mes])
    ELSE IF Len(s) = 4 /\ IsDigit(s) THEN to_datetime(DigitsValue(s), 1)
    ELSE NaT

-----------------------------------------------------------------------------
(* Inputs of traduzir_data_pt_br *)

Abreviaturas == DOMAIN meses

\* "01" .. "12"
MesesNumericos ==
    {<<"0", d>> : d \in Digitos \ {"0"}} \cup {<<"1", d>> : d \in {"0", "1", "2"}}

MesTokens ==
    Abreviaturas \cup MesesNumericos
    \cup {<<"J","A","N">>, <<"D","e","z">>, <<"j","a","n","e","i","r","o">>,
          <<"x","y","z">>, <<"j","a">>}

AnosDoisDigitos == {<<a, b>> : a \in Digitos, b \in Digitos}

\* 1900 .. 2099
AnosQuatroDigitos ==
    {<<s[1], s[2], c, d>> : s \in {<<"1", "9">>, <<"2", "0">>}, c \in Digitos, d \in Digitos}

AnoTokens ==
    AnosDoisDigitos \cup AnosQuatroDigitos
    \cup {<<"5">>, <<"2","x">>, <<"2","0","2">>, <<>>}

DatasComBarra == {m \o <<"/">> \o a : m \in MesTokens, a \in AnoTokens}

DataStrs ==
    DatasComBarra
    \cup {<<" ">> \o m \o <<"/">> \o a \o <<" ">> : m \in Abreviaturas, a \in {<<"2","3">>}}
    \cup {m \o <<"/">> \o <<"2","3">> \o <<"/">> \o <<"1">> : m \in Abreviaturas}
    \cup AnosQuatroDigitos
    \cup {NaN, <<"n","a","n">>, <<>>, <<"j","a","n">>}

InitData ==
    /\ pc = "data"
    /\ data_str \in DataStrs
    /\ data = Ocioso
    /\ arq_gastos = Ocioso /\ arq_divida = Ocioso /\ leituras = Ocioso
    /\ df_gastos_bruto = Ocioso /\ df_divida_bruto = Ocioso
    /\ df_gastos = Ocioso /\ df_divida = Ocioso
    /\ erros = Ocioso /\ abas = Ocioso /\ pergunta = Ocioso /\ insight = Ocioso

TraduzirData ==
    /\ pc = "data"
    /\ data' = traduzir_data_pt_br(data_str)
    /\ pc' = "data_done"
    /\ UNCHANGED <<data_str, arq_gastos, arq_divida, leituras, df_gastos_bruto,
                   df_divida_bruto, df_gastos, df_divida, erros, abas, pergunta, insight>>

NextData == TraduzirData

SpecData == InitData /\ [][NextData]_vars

-----------------------------------------------------------------------------
(* Claims about traduzir_data_pt_br *)

\* C4: for every string mon/YY, mon one of the 12 Portuguese abbreviations and
\* YY two decimal digits, traduzir_data_pt_br returns the date whose year is
\* 2000 + YY, whose month is the table's number for mon and whose day is 1.
C4_MonYY ==
    (pc = "data_done"
     /\ \E m \in Abreviaturas, a \in AnosDoisDigitos : data_str = m \o <<"/">> \o a)
    => \E m \in Abreviaturas, a \in Digitos, b \in Digitos :
          /\ data_str = m \o <<"/", a, b>>
          /\ data = [ano |-> 2000 + 10 * DigitVal(a) + DigitVal(b),
                     mes |-> meses[m], dia |-> 1]

C4_Witness ==
    /\ pc = "data_done"
    /\ data_str = <<"d","e","z","/","0","7">>
    /\ data = [ano |-> 2007, mes |-> 12, dia |-> 1]

\* C5: for every MM in 01..12 and four-digit YYYY, traduzir_data_pt_br returns
\* the first day of month MM of year YYYY.
C5_NumericMMYYYY ==
    (pc = "data_done"
     /\ \E m \in MesesNumericos, a \in AnosQuatroDigitos : data_str = m \o <<"/">> \o a)
    => \E m \in MesesNumericos, a \in AnosQuatroDigitos :
          /\ data_str = m \o <<"/">> \o a
          /\ data = [ano |-> DigitsValue(a), mes |-> DigitsValue(m), dia |-> 1]

-----------------------------------------------------------------------------
(* Numeric normalisation (lines 104-110, 158-161, 166-172) *)

\* .str.replace('.', '', regex=False).str.replace(',', '.', regex=False)
Limpa(cell) == Replace(Replace(cell, ".", <<>>), ",", <<".">>)

\* The two fractional digits of a fixed-point number of centavos; the input
\* cells carry at most two digits after the decimal comma.
Centavos(frac) ==
    IF Len(frac) = 0 THEN 0
    ELSE IF Len(frac) = 1 THEN 10 * DigitVal(frac[1])
    ELSE 10 * DigitVal(frac[1]) + DigitVal(frac[2])

\* pd.to_numeric(s, errors='coerce') of one string, on the characters the
\* inputs use (digits, ".", letters, "/", space): <<v>>, the number in
\* centavos, or <<>> for NaN.
to_numeric(s0) ==
    LET s == Strip(s0)
        p == Split(s, ".")
    IN IF Len(p) = 1
       THEN (IF IsDigit(s) THEN <<100 * DigitsValue(s)>> ELSE <<>>)
       ELSE IF Len(p) = 2
       THEN (IF /\ (Len(p[1]) = 0 \/ IsDigit(p[1]))
                /\ (Len(p[2]) = 0 \/ IsDigit(p[2]))
                /\ Len(p[1]) + Len(p[2]) > 0
             THEN <<100 * DigitsValue(p[1]) + Centavos(p[2])>>
             ELSE <<>>)
       ELSE <<>>

\* .fillna(v)
fillna(x, v) == IF x = <<>> THEN v ELSE x[1]

\* The whole cleaning of one money cell: lines 104-110 and 158-161.
ValorLimpo(cell) == fillna(to_numeric(Limpa(cell)), 0)

-----------------------------------------------------------------------------
(* DataFrames *)

\* pd.DataFrame()
DataFrameVazio == [columns |-> <<>>, rows |-> <<>>]

\* df.empty
Empty(df) == Len(df.columns) = 0 \/ Len(df.rows) = 0

\* col in df.columns
HasColumn(df, col) == \E i \in 1..Len(df.columns) : df.columns[i] = col

\* The elements of s at the indices in keep, in order.
RECURSIVE SelectSeqIdx(_, _)
SelectSeqIdx(s, keep) ==
    IF Len(s) = 0 THEN <<>>
    ELSE SelectSeqIdx(SubSeq(s, 1, Len(s) - 1), keep)
         \o (IF Len(s) \in keep THEN <<s[Len(s)]>> ELSE <<>>)

\* sum of f[i] over the indices i in S
RECURSIVE SumOver(_, _)
SumOver(f, S) ==
    IF S = {} THEN 0
    ELSE LET i == CHOOSE j \in S : TRUE IN f[i] + SumOver(f, S \ {i})

\* Months since year 0 of a Timestamp: the order of dates.
Ord(d) == 12 * d.ano + d.mes

-----------------------------------------------------------------------------
(* preparar_gastos (lines 81-126) *)

col_meses == <<"Jan", "Fev", "Mar", "Abr", "Mai", "Jun",
               "Jul", "Ago", "Set", "Out", "Nov", "Dez">>

mapa_mes ==
    [m \in {col_meses[i] : i \in 1..12} |->
        CHOOSE i \in 1..12 : col_meses[i] = m]

ColunasObrigatorias == col_meses \o <<"Ano", "Funcao">>

\* The first required column missing from df (line 90-93), or 0.
PrimeiraFaltando(df) ==
    IF \A i \in 1..14 : HasColumn(df, ColunasObrigatorias[i]) THEN 0
    ELSE CHOOSE i \in 1..14 :
            /\ ~HasColumn(df, ColunasObrigatorias[i])
            /\ \A j \in 1..(i - 1) : HasColumn(df, ColunasObrigatorias[j])

\* df.melt(id_vars=[Ano, Funcao], value_vars=col_meses): one row per month
\* column and input row, month by month (lines 96-101), then the columns of
\* lines 104-125.
LinhaLonga(r, m) ==
    [Ano |-> r["Ano"], Funcao |-> r["Funcao"], Mes |-> m,
     Valor |-> ValorLimpo(r[m]), Mes_Num |-> mapa_mes[m],
     Data |-> to_datetime(r["Ano"], mapa_mes[m]),
     Valor_Realizado |-> ValorLimpo(r[m])]

preparar_gastos(df) ==
    IF Empty(df) THEN df
    ELSE IF PrimeiraFaltando(df) # 0 THEN DataFrameVazio
    ELSE LET n == Len(df.rows) IN
         [columns |-> <<"Ano", "Funcao", "Mes", "Valor", "Mes_Num", "Data",
                        "Valor_Realizado">>,
          rows |-> [k \in 1..(12 * n) |->
                       LinhaLonga(df.rows[((k - 1) % n) + 1],
                                  col_meses[((k - 1) \div n) + 1])]]

\* The st.error calls of preparar_gastos (line 92).
preparar_gastos_erros(df) ==
    IF ~Empty(df) /\ PrimeiraFaltando(df) # 0
    THEN <<"Coluna obrigatoria faltando nos gastos">>
    ELSE <<>>

-----------------------------------------------------------------------------
(* preparar_divida (lines 128-184) *)

cMes_do_Estoque_esp == <<"M","e","s"," ","d","o"," ","E","s","t","o","q","u","e">>
cMes_do_Estoque == <<"M","e","s","_","d","o","_","E","s","t","o","q","u","e">>
cMes_Estoque == <<"M","e","s","_","E","s","t","o","q","u","e">>
cValor_Estoque == <<"V","a","l","o","r","_","E","s","t","o","q","u","e">>
cValor == <<"V","a","l","o","r">>
cEstoque == <<"E","s","t","o","q","u","e">>
cData_Original == <<"D","a","t","a","_","O","r","i","g","i","n","a","l">>
cData == <<"D","a","t","a">>
cAno == <<"A","n","o">>
cTipo_Divida == <<"T","i","p","o","_","D","i","v","i","d","a">>
\* 'Tipo de Dívida': the accented letter is the one character "i'"
cTipo_de_Divida == <<"T","i","p","o"," ","d","e"," ","D","i'","v","i","d","a">>
cDetentor == <<"D","e","t","e","n","t","o","r">>
cCredor == <<"C","r","e","d","o","r">>

\* Series.astype(str) of one cell: a missing cell prints as "nan".
Str(cell) == IF cell = NaN THEN <<"n","a","n">> ELSE cell

\* Line 135.
EhColunaData(c) ==
    \/ Contains(cMes_do_Estoque_esp, c)
    \/ Contains(cMes_do_Estoque, c)
    \/ Contains(cMes_Estoque, c)

\* The first index i of cols with cols[i] among the accepted names, or 0.
Primeiro(cols, aceitas) ==
    IF \A i \in 1..Len(cols) : cols[i] \notin aceitas THEN 0
    ELSE CHOOSE i \in 1..Len(cols) :
            cols[i] \in aceitas /\ \A j \in 1..(i - 1) : cols[j] \notin aceitas

\* The names of cols, as a set.
Nomes(cols) == {cols[i] : i \in 1..Len(cols)}

\* Lines 133-137: the index of col_data in df.columns, or 0 (None).
ColData(df) ==
    Primeiro(df.columns, {c \in Nomes(df.columns) : EhColunaData(c)})

\* df[c] = ...: an assigned column is appended unless it exists.
ComColuna(cols, c) ==
    IF \E i \in 1..Len(cols) : cols[i] = c THEN cols ELSE Append(cols, c)

\* df.columns after lines 144-151.
ColunasComData(df) ==
    ComColuna(ComColuna(ComColuna(df.columns, cData_Original), cData), cAno)

\* Line 148-149 for one input row.
DataDaLinha(df, r) ==
    traduzir_data_pt_br(Strip(Str(r[df.columns[ColData(df)]])))

\* Line 150: the input rows dropna keeps.
Mantidas(df) == {i \in 1..Len(df.rows) : DataDaLinha(df, df.rows[i]) # NaT}

\* Line 151: df['Data'].apply(...) of a column of None only is a column of
\* dtype object, which has no .dt accessor: AttributeError, outside any try.
preparar_divida_levanta(df) ==
    ~Empty(df) /\ ColData(df) # 0 /\ Mantidas(df) = {}

\* Line 164.
EhPossivel(c) == Contains(cValor, c) \/ Contains(cEstoque, c)

\* Lines 157-175: the column Valor_Estoque is computed from, or <<>> when
\* there is none (line 174).
ColunaValor(df) ==
    LET cols == ColunasComData(df)
        possiveis == {c \in Nomes(cols) : EhPossivel(c)} IN
    IF \E i \in 1..Len(cols) : cols[i] = cValor_Estoque THEN cValor_Estoque
    ELSE IF Primeiro(cols, possiveis) = 0 THEN <<>>
    ELSE cols[Primeiro(cols, possiveis)]

\* Lines 178-182: the name a column ends with.
Renomeia(c) ==
    IF Contains(cTipo_Divida, c) \/ Contains(cTipo_de_Divida, c) THEN cTipo_Divida
    ELSE IF Contains(cDetentor, c) \/ Contains(cCredor, c) THEN cDetentor
    ELSE c

\* The cell of the cleaned row of input row r under the column c (the name
\* before line 178), the later assignments taking precedence.
CelulaLimpa(df, r, c) ==
    LET d == DataDaLinha(df, r)
        ComData(x) == IF x = cData_Original THEN Strip(Str(r[df.columns[ColData(df)]]))
                      ELSE IF x = cData THEN d
                      ELSE IF x = cAno THEN d.ano
                      ELSE r[x]
    IN IF c = cValor_Estoque THEN ValorLimpo(Str(ComData(ColunaValor(df))))
       ELSE ComData(c)

preparar_divida(df) ==
    IF Empty(df) THEN df
    ELSE IF ColData(df) = 0 THEN DataFrameVazio
    ELSE IF ColunaValor(df) = <<>> THEN DataFrameVazio
    ELSE LET cols == ComColuna(ColunasComData(df), cValor_Estoque)
             nomes == {Renomeia(cols[i]) : i \in 1..Len(cols)}
             Limpa1(r) ==
                 [n \in nomes |->
                     CelulaLimpa(df, r, cols[Primeiro(cols, {c \in Nomes(cols) : Renomeia(c) = n})])]
         IN [columns |-> [i \in 1..Len(cols) |-> Renomeia(cols[i])],
             rows |-> LET kept == SelectSeqIdx(df.rows, Mantidas(df))
                      IN [i \in 1..Len(kept) |-> Limpa1(kept[i])]]

\* The st.error calls of preparar_divida (lines 140, 174).
preparar_divida_erros(df) ==
    IF Empty(df) THEN <<>>
    ELSE IF ColData(df) = 0
    THEN <<"Nao foi encontrada coluna de mes/estoque na base da divida.">>
    ELSE IF ColunaValor(df) = <<>>
    THEN <<"Nenhuma coluna de valor da divida encontrada.">>
    ELSE <<>>

-----------------------------------------------------------------------------
(* gerar_insight_avancado (lines 191-253) *)

\* The arithmetic below is exact, on centavos, where the code's is binary
\* floating point; a comparison such as perc <= 80 is the comparison of the
\* exact quotients.

\* The order of the function names: groupby sorts its keys.
Funcoes == <<"A", "B", "C", "D", "E">>

OrdemFuncao(f) == CHOOSE i \in 1..Len(Funcoes) : Funcoes[i] = f

\* df.groupby(chave)[valor].sum(): a function from the keys to the sums.
GroupBySum(linhas, chave, valor) ==
    [k \in {linhas[i][chave] : i \in 1..Len(linhas)} |->
        SumOver([i \in 1..Len(linhas) |-> linhas[i][valor]],
                {i \in 1..Len(linhas) : linhas[i][chave] = k})]

\* series.sum()
SeriesSum(serie) == SumOver(serie, DOMAIN serie)

\* sort_values(ascending=False) of a series indexed by function: the position
\* of f, equal values keeping the order of the keys.
Posicao(serie, f) ==
    1 + Cardinality({g \in DOMAIN serie :
                        \/ serie[g] > serie[f]
                        \/ (serie[g] = serie[f] /\ OrdemFuncao(g) < OrdemFuncao(f))})

\* cumsum() at f of the sorted series.
Acumulado(serie, f) ==
    SumOver(serie, {g \in DOMAIN serie : Posicao(serie, g) <= Posicao(serie, f)})

\* f"{num/den:.1f}", in tenths: the nearest tenth, and at an exact tie either
\* neighbour, as the choice then rests on the rounding of the binary quotient.
Fmt1f(num, den) ==
    {t \in {(10 * num) \div den, ((10 * num) \div den) + 1} :
        2 * (IF 10 * num >= t * den THEN 10 * num - t * den ELSE t * den - 10 * num)
            <= den}

\* Line 200-202: df_perc[df_perc <= 80].count() + 1
Funcoes80(serie) ==
    Cardinality({f \in DOMAIN serie : 100 * Acumulado(serie, f) <= 80 * SeriesSum(serie)}) + 1

sPareto == <<"P","a","r","e","t","o">>
sSustentabilidade == <<"S","u","s","t","e","n","t","a","b","i","l","i","d","a","d","e">>
sListagem == <<"L","i","s","t","a","g","e","m"," ","d","o","s"," ","G","a","s","t","o","s">>

Mensagem(texto) == [tipo |-> "mensagem", texto |-> texto]

\* Lines 193-216.
InsightPareto(gastos) ==
    IF ~HasColumn(gastos, "Funcao") \/ ~HasColumn(gastos, "Valor_Realizado")
    THEN Mensagem("Erro no calculo: KeyError")
    ELSE
    LET df_funcoes == GroupBySum(gastos.rows, "Funcao",
                                 "Valor_Realizado")
        total_gasto == SeriesSum(df_funcoes)
        top_1 == CHOOSE f \in DOMAIN df_funcoes : Posicao(df_funcoes, f) = 1
    IN IF total_gasto = 0 THEN Mensagem("Dados de gastos zerados.")
       ELSE [tipo |-> "pareto",
             total_funcoes |-> Cardinality(DOMAIN df_funcoes),
             funcoes_80 |-> Funcoes80(df_funcoes),
             top_1 |-> top_1,
             top_1_perc |-> Fmt1f(100 * df_funcoes[top_1], total_gasto)]

\* A mutant of DataMax: the earliest date instead of the latest.
DataMaxMut(divida) ==
    LET i == CHOOSE i \in 1..Len(divida.rows) :
                \A j \in 1..Len(divida.rows) :
                    Ord(divida.rows[j][cData]) >= Ord(divida.rows[i][cData])
    IN divida.rows[i][cData]

\* Line 221: df_divida['Data'].max()
DataMax(divida) ==
    LET i == CHOOSE i \in 1..Len(divida.rows) :
                \A j \in 1..Len(divida.rows) :
                    Ord(divida.rows[j][cData]) <= Ord(divida.rows[i][cData])
    IN divida.rows[i][cData]

\* Line 222: df_divida[df_divida['Data'] == data_max]['Valor_Estoque'].sum()
DividaTotal(divida) ==
    SumOver([i \in 1..Len(divida.rows) |-> divida.rows[i][cValor_Estoque]],
            {i \in 1..Len(divida.rows) : divida.rows[i][cData] = DataMax(divida)})

\* Line 223: df_gastos['Valor_Realizado'].sum()
GastoTotalAnual(gastos) ==
    SumOver([i \in 1..Len(gastos.rows) |-> gastos.rows[i].Valor_Realizado],
            1..Len(gastos.rows))

\* Lines 218-238.  razao is the quotient of line 226, kept as a fraction.
InsightSustentabilidade(gastos, divida) ==
    IF Empty(divida) THEN Mensagem("Dados de divida insuficientes.")
    ELSE IF ~HasColumn(divida, cData) \/ ~HasColumn(divida, cValor_Estoque)
            \/ ~HasColumn(gastos, "Valor_Realizado")
    THEN Mensagem("Erro no calculo: KeyError")
    ELSE IF GastoTotalAnual(gastos) > 0
    THEN [tipo |-> "sustentabilidade",
          data_max |-> DataMax(divida),
          divida_total |-> DividaTotal(divida),
          gasto_total_anual |-> GastoTotalAnual(gastos),
          razao |-> [num |-> DividaTotal(divida), den |-> GastoTotalAnual(gastos)],
          razao_1f |-> Fmt1f(DividaTotal(divida), GastoTotalAnual(gastos))]
    ELSE Mensagem("Nao foi possivel calcular: gastos anuais zerados ou invalidos.")

\* Lines 240-249: the ranked lines, by position; perc > 0.1 is
\* 100 * valor / total > 1/10.  With total = 0 the quotient is NaN or inf
\* with no exception; NaN > 0.1 is false and no positive value exists then.
InsightListagem(gastos) ==
    IF ~HasColumn(gastos, "Funcao") \/ ~HasColumn(gastos, "Valor_Realizado")
    THEN Mensagem("Erro no calculo: KeyError")
    ELSE
    LET df_rank == GroupBySum(gastos.rows, "Funcao",
                              "Valor_Realizado")
        total == SeriesSum(df_rank)
    IN [tipo |-> "listagem",
        linhas |-> {[posicao |-> Posicao(df_rank, f), func |-> f,
                     valor |-> df_rank[f],
                     perc |-> Fmt1f(100 * df_rank[f], total)] :
                    f \in {g \in DOMAIN df_rank :
                              total > 0 /\ 1000 * df_rank[g] > total}}]

gerar_insight_avancado(perg, gastos, divida) ==
    IF Contains(sPareto, perg) THEN InsightPareto(gastos)
    ELSE IF Contains(sSustentabilidade, perg) THEN InsightSustentabilidade(gastos, divida)
    ELSE IF Contains(sListagem, perg) THEN InsightListagem(gastos)
    ELSE Mensagem("Selecione uma analise.")

\* Lines 368-373, without the emoji and the accents.
opcoes ==
    << <<"S","e","l","e","c","i","o","n","e",".",".",".">>,
       <<"A","n","a","l","i","s","e"," ","d","e"," ","C","o","n","c","e","n","t","r",
         "a","c","a","o"," ","(","R","e","g","r","a"," ","d","e"," ","P","a","r","e",
         "t","o",")">>,
       <<"I","n","d","i","c","e"," ","d","e"," ","S","u","s","t","e","n","t","a","b",
         "i","l","i","d","a","d","e"," ","(","D","i","v","i","d","a"," ","v","s","."," ",
         "O","r","c","a","m","e","n","t","o",")">>,
       <<"L","i","s","t","a","g","e","m"," ","d","o","s"," ","G","a","s","t","o","s",
         " ","(","M","a","i","o","r"," ","p","a","r","a"," ","M","e","n","o","r"," ",
         "+"," ","%",")">> >>

-----------------------------------------------------------------------------
(* Input tables *)

\* Bounds of the input tables.
MaxFuncoes == 3
MaxLinhasDivida == 2
MaxFuncoesPagina == 2
MaxLinhasDividaPagina == 3

ColunasGastos == <<"Ano", "Funcao">> \o col_meses

\* A spending row: the cells of Jan and Dez are par, the other months are 0.
LinhaGastos(cols, f, par) ==
    [c \in {cols[i] : i \in 1..Len(cols)} |->
        IF c = "Ano" THEN 2025
        ELSE IF c = "Funcao" THEN f
        ELSE IF c = "Jan" THEN par[1]
        ELSE IF c = "Dez" THEN par[2]
        ELSE <<"0">>]

\* <<Jan, Dez>>: 80, 14,50 + 0,50, 5, unparseable, 0.
ParesGastos ==
    { << <<"8","0">>, <<"0">> >>,
      << <<"1","4",",","5","0">>, <<"0",",","5","0">> >>,
      << <<"5">>, <<"0">> >>,
      << <<"x">>, <<"0">> >>,
      << <<"0">>, <<"0">> >> }

\* <<Jan, Dez>>: 80, 15 + 5, unparseable.
ParesGastosPagina ==
    { << <<"8","0">>, <<"0">> >>,
      << <<"1","5">>, <<"5">> >>,
      << <<"x">>, <<"0">> >> }

\* The tables of up to n rows, one function per row, over the columns cols.
TabelasGastos(cols, pares, n) ==
    UNION {{[columns |-> cols,
             rows |-> [i \in 1..k |-> LinhaGastos(cols, Funcoes[i], p[i])]] :
            p \in [1..k -> pares]} : k \in 0..n}

\* A table with no Dez column.
ColunasSemDez == SubSeq(ColunasGastos, 1, 13)

cValor_do_Estoque == <<"V","a","l","o","r"," ","d","o"," ","E","s","t","o","q","u","e">>

sInterna == <<"I","n","t","e","r","n","a">>
sExterna == <<"E","x","t","e","r","n","a">>
sTotal == <<"T","o","t","a","l">>
jan23 == <<"j","a","n","/","2","3">>
fev23 == <<"f","e","v","/","2","3">>
dez22 == <<"D","e","z","/","2","0","2","2">>
num0123 == <<"0","1","/","2","0","2","3">>

\* <<date cell, debt type, value cell>>
LinhasDivida ==
    { <<jan23, sInterna, <<"4","0","0">> >>,
      <<jan23, sExterna, <<"2","0","0">> >>,
      <<jan23, sTotal, <<"6","0","0">> >>,
      <<fev23, sInterna, <<"6","0","0">> >>,
      <<dez22, sExterna, <<"1",".","2","0","0",",","0","0">> >>,
      <<num0123, sInterna, <<"4","0","0">> >>,
      <<jan23, sInterna, <<"x">> >> }

LinhasDividaPoucas ==
    { <<jan23, sInterna, <<"6","0","0">> >>,
      <<fev23, sInterna, <<"1",".","2","0","0",",","5","0">> >>,
      <<num0123, sInterna, <<"4","0","0">> >> }

\* The tables of up to n rows whose columns, in order, are the date, the debt
\* type and the value (cols has three names) or the date and the value (two).
TabelasDivida(cols, linhas, n) ==
    UNION {{[columns |-> cols,
             rows |-> [i \in 1..k |->
                         [c \in {cols[j] : j \in 1..Len(cols)} |->
                             IF c = cols[1] THEN l[i][1]
                             ELSE IF c = cols[Len(cols)] THEN l[i][3]
                             ELSE l[i][2]]]] :
            l \in [1..k -> linhas]} : k \in 0..n}

ColunasDivida == <<cMes_do_Estoque_esp, cTipo_de_Divida, cValor_Estoque>>
ColunasDividaDrift == <<cMes_do_Estoque_esp, cValor_do_Estoque>>
ColunasDividaSemData == <<cTipo_Divida, cValor_Estoque>>

-----------------------------------------------------------------------------
(* gerar_insight_avancado applied to cleaned tables *)

GastosLimpos ==
    {preparar_gastos(t) : t \in TabelasGastos(ColunasGastos, ParesGastos, MaxFuncoes)}

GastosPoucos ==
    {preparar_gastos(t) :
        t \in TabelasGastos(ColunasGastos, ParesGastosPagina, MaxFuncoesPagina)}

DividasLimpas ==
    {preparar_divida(t) :
        t \in {u \in TabelasDivida(ColunasDivida, LinhasDivida, MaxLinhasDivida) :
                  ~preparar_divida_levanta(u)}}

DividasPoucas ==
    {preparar_divida(t) :
        t \in {u \in TabelasDivida(ColunasDivida, LinhasDividaPoucas, 1) :
                  ~preparar_divida_levanta(u)}}

InitInsight ==
    /\ pc = "insight"
    /\ \/ /\ pergunta \in {opcoes[1], opcoes[2], opcoes[4]}
          /\ df_gastos \in GastosLimpos
          /\ df_divida \in DividasPoucas
       \/ /\ pergunta = opcoes[3]
          /\ df_gastos \in GastosPoucos
          /\ df_divida \in DividasLimpas
    /\ insight = Ocioso
    /\ data_str = Ocioso /\ data = Ocioso
    /\ arq_gastos = Ocioso /\ arq_divida = Ocioso /\ leituras = Ocioso
    /\ df_gastos_bruto = Ocioso /\ df_divida_bruto = Ocioso
    /\ erros = Ocioso /\ abas = Ocioso

GerarInsight ==
    /\ pc = "insight"
    /\ insight' = gerar_insight_avancado(pergunta, df_gastos, df_divida)
    /\ pc' = "insight_done"
    /\ UNCHANGED <<data_str, data, arq_gastos, arq_divida, leituras, df_gastos_bruto,
                   df_divida_bruto, df_gastos, df_divida, erros, abas, pergunta>>

NextInsight == GerarInsight

SpecInsight == InitInsight /\ [][NextInsight]_vars

-----------------------------------------------------------------------------
(* Claims about gerar_insight_avancado *)

\* The total of function f in the cleaned spending table.
TotalDaFuncao(f) ==
    SumOver([i \in 1..Len(df_gastos.rows) |-> df_gastos.rows[i].Valor_Realizado],
            {i \in 1..Len(df_gastos.rows) : df_gastos.rows[i].Funcao = f})

FuncoesDosGastos == {df_gastos.rows[i].Funcao : i \in 1..Len(df_gastos.rows)}

\* Some k functions together reach 80% of the grand total (then the k largest do).
Alcanca80(k) ==
    \E S \in SUBSET FuncoesDosGastos :
        /\ Cardinality(S) = k
        /\ 100 * SumOver([f \in FuncoesDosGastos |-> TotalDaFuncao(f)], S)
             >= 80 * SumOver([f \in FuncoesDosGastos |-> TotalDaFuncao(f)], FuncoesDosGastos)

\* C1: in the Pareto branch, with non-negative function totals and a positive
\* grand total, the reported count is the smallest k such that the k largest
\* function totals reach at least 80% of the grand total; for {A:80, B:15, C:5}
\* the count is 1 and A's share is reported as 80.0%.
C1_ParetoMenorK ==
    (pc = "insight_done" /\ Contains(sPareto, pergunta) /\ insight.tipo = "pareto")
    => /\ Alcanca80(insight.funcoes_80)
       /\ \A j \in 1..(insight.funcoes_80 - 1) : ~Alcanca80(j)
       /\ (/\ FuncoesDosGastos = {"A", "B", "C"}
           /\ TotalDaFuncao("A") = 8000
           /\ TotalDaFuncao("B") = 1500
           /\ TotalDaFuncao("C") = 500)
          => (insight.funcoes_80 = 1 /\ insight.top_1 = "A" /\ insight.top_1_perc = {800})

\* The rows of the cleaned debt table that carry its latest date.
LinhasDaUltimaData ==
    {i \in 1..Len(df_divida.rows) :
        \A j \in 1..Len(df_divida.rows) :
            Ord(df_divida.rows[j][cData]) <= Ord(df_divida.rows[i][cData])}

EstoqueDaUltimaData ==
    SumOver([i \in 1..Len(df_divida.rows) |-> df_divida.rows[i][cValor_Estoque]],
            LinhasDaUltimaData)

SomaValorRealizado ==
    SumOver([i \in 1..Len(df_gastos.rows) |-> df_gastos.rows[i].Valor_Realizado],
            1..Len(df_gastos.rows))

\* C3: in the sustainability branch with a non-empty debt table: when the sum
\* of all Valor_Realizado is positive the reported ratio is (the sum of
\* Valor_Estoque over the rows of the latest Data) / (the sum of all
\* Valor_Realizado), printed to the nearest tenth; when that sum is 0 the
\* result is the "could not compute" message, not an exception.
C3_Sustentabilidade ==
    (/\ pc = "insight_done"
     /\ Contains(sSustentabilidade, pergunta) /\ ~Contains(sPareto, pergunta)
     /\ ~Empty(df_divida))
    => IF HasColumn(df_gastos, "Valor_Realizado") /\ SomaValorRealizado > 0
       THEN /\ insight.tipo = "sustentabilidade"
            /\ insight.razao = [num |-> EstoqueDaUltimaData, den |-> SomaValorRealizado]
            /\ insight.razao_1f # {}
            /\ \A t \in insight.razao_1f :
                  /\ 2 * (10 * EstoqueDaUltimaData - t * SomaValorRealizado)
                       <= SomaValorRealizado
                  /\ 2 * (t * SomaValorRealizado - 10 * EstoqueDaUltimaData)
                       <= SomaValorRealizado
       ELSE /\ insight.tipo = "mensagem"
            /\ HasColumn(df_gastos, "Valor_Realizado")
               => /\ SomaValorRealizado = 0
                  /\ insight = Mensagem(
                       "Nao foi possivel calcular: gastos anuais zerados ou invalidos.")

\* 600 / 100 gives 6.0, the debt table holding an earlier date as well.
C3_Witness ==
    /\ pc = "insight_done"
    /\ insight.tipo = "sustentabilidade"
    /\ insight.divida_total = 60000
    /\ insight.gasto_total_anual = 10000
    /\ insight.razao_1f = {60}
    /\ \E i \in 1..Len(df_divida.rows) : i \notin LinhasDaUltimaData

-----------------------------------------------------------------------------
(* The page script (lines 74-79, 186-187, 263-380) *)

URL_GASTOS == "gastos_funcao_2025.csv"
URL_DIVIDA == "divida_estoque_historico.csv"

\* A file is [codificacao, tabela]: codificacao "utf-8" is a file that decodes
\* and parses as UTF-8 (and as Latin-1), "latin-1" one that does so only as
\* Latin-1, "ausente" one that cannot be fetched or parsed at all.
\* pd.read_csv(url, sep=';', encoding=..., decimal=','): the table, or <<>>
\* where it raises.
read_csv(arq, encoding) ==
    IF arq.codificacao = "utf-8" \/ (arq.codificacao = "latin-1" /\ encoding = "latin-1")
    THEN <<arq.tabela>>
    ELSE <<>>

\* carregar_csv (lines 23-30): the encodings it tries, in order.
carregar_csv_tentativas(arq) == <<"utf-8">>

\* carregar_csv: the DataFrame returned.
carregar_csv(arq) ==
    IF read_csv(arq, "utf-8") # <<>> THEN read_csv(arq, "utf-8")[1] ELSE DataFrameVazio

\* carregar_csv: its st.error calls (line 29).
carregar_csv_erros(arq, url) ==
    IF read_csv(arq, "utf-8") # <<>> THEN <<>> ELSE <<"Erro ao carregar CSV de " \o url>>

ArquivosGastos ==
    {[codificacao |-> "utf-8", tabela |-> t] :
        t \in TabelasGastos(ColunasGastos, ParesGastosPagina, MaxFuncoesPagina)
              \cup {u \in TabelasGastos(ColunasSemDez, ParesGastosPagina, 1) :
                       Len(u.rows) = 1}}
    \cup {[codificacao |-> c, tabela |-> t] :
            c \in {"latin-1", "ausente"},
            t \in {u \in TabelasGastos(ColunasGastos, {<< <<"8","0">>, <<"0">> >>}, 1) :
                      Len(u.rows) = 1}}

ArquivosDivida ==
    {[codificacao |-> "utf-8", tabela |-> t] :
        t \in TabelasDivida(ColunasDivida, LinhasDivida, MaxLinhasDividaPagina)
              \cup TabelasDivida(ColunasDividaDrift, LinhasDividaPoucas, 2)
              \cup TabelasDivida(ColunasDividaSemData, LinhasDividaPoucas, 1)}
    \cup {[codificacao |-> c, tabela |-> t] :
            c \in {"latin-1", "ausente"},
            t \in {u \in TabelasDivida(ColunasDivida, LinhasDividaPoucas, 1) :
                      Len(u.rows) = 1}}

Init ==
    /\ pc = "carregar_gastos"
    /\ arq_gastos \in ArquivosGastos
    /\ arq_divida \in ArquivosDivida
    /\ leituras = <<>>
    /\ erros = <<>>
    /\ abas = <<>>
    /\ df_gastos_bruto = Ocioso /\ df_divida_bruto = Ocioso
    /\ df_gastos = Ocioso /\ df_divida = Ocioso
    /\ pergunta = Ocioso /\ insight = Ocioso
    /\ data_str = Ocioso /\ data = Ocioso

\* Line 78.
CarregarGastos ==
    /\ pc = "carregar_gastos"
    /\ leituras' = leituras \o [i \in 1..Len(carregar_csv_tentativas(arq_gastos)) |->
                                  <<URL_GASTOS, carregar_csv_tentativas(arq_gastos)[i]>>]
    /\ df_gastos_bruto' = carregar_csv(arq_gastos)
    /\ erros' = erros \o carregar_csv_erros(arq_gastos, URL_GASTOS)
    /\ pc' = "carregar_divida"
    /\ UNCHANGED <<data_str, data, arq_gastos, arq_divida, df_divida_bruto, df_gastos,
                   df_divida, abas, pergunta, insight>>

\* Line 79.
CarregarDivida ==
    /\ pc = "carregar_divida"
    /\ leituras' = leituras \o [i \in 1..Len(carregar_csv_tentativas(arq_divida)) |->
                                  <<URL_DIVIDA, carregar_csv_tentativas(arq_divida)[i]>>]
    /\ df_divida_bruto' = carregar_csv(arq_divida)
    /\ erros' = erros \o carregar_csv_erros(arq_divida, URL_DIVIDA)
    /\ pc' = "preparar_gastos"
    /\ UNCHANGED <<data_str, data, arq_gastos, arq_divida, df_gastos_bruto, df_gastos,
                   df_divida, abas, pergunta, insight>>

\* Line 186.
PrepararGastos ==
    /\ pc = "preparar_gastos"
    /\ df_gastos' = preparar_gastos(df_gastos_bruto)
    /\ erros' = erros \o preparar_gastos_erros(df_gastos_bruto)
    /\ pc' = "preparar_divida"
    /\ UNCHANGED <<data_str, data, arq_gastos, arq_divida, leituras, df_gastos_bruto,
                   df_divida_bruto, df_divida, abas, pergunta, insight>>

\* Line 187.  An exception of preparar_divida is caught nowhere: the script
\* run ends there.
PrepararDivida ==
    /\ pc = "preparar_divida"
    /\ IF preparar_divida_levanta(df_divida_bruto)
       THEN /\ pc' = "excecao"
            /\ UNCHANGED <<df_divida, erros>>
       ELSE /\ df_divida' = preparar_divida(df_divida_bruto)
            /\ erros' = erros \o preparar_divida_erros(df_divida_bruto)
            /\ pc' = "pagina"
    /\ UNCHANGED <<data_str, data, arq_gastos, arq_divida, leituras, df_gastos_bruto,
                   df_divida_bruto, df_gastos, abas, pergunta, insight>>

\* Lines 266-268: both tables are there, the three tabs are opened.
AbrirAbas ==
    /\ pc = "pagina"
    /\ ~Empty(df_gastos) /\ ~Empty(df_divida)
    /\ pc' = "tab1"
    /\ UNCHANGED <<data_str, data, arq_gastos, arq_divida, leituras, df_gastos_bruto,
                   df_divida_bruto, df_gastos, df_divida, erros, abas, pergunta, insight>>

\* Lines 379-380.
ErroCritico ==
    /\ pc = "pagina"
    /\ ~(~Empty(df_gastos) /\ ~Empty(df_divida))
    /\ erros' = Append(erros, "Erro critico: Verifique os arquivos CSV no GitHub.")
    /\ pc' = "fim"
    /\ UNCHANGED <<data_str, data, arq_gastos, arq_divida, leituras, df_gastos_bruto,
                   df_divida_bruto, df_gastos, df_divida, abas, pergunta, insight>>

\* The rows of linhas whose Data is a date: groupby('Data') drops NaT keys.
ComData(linhas) ==
    SelectSeqIdx(linhas, {i \in 1..Len(linhas) : linhas[i].Data # NaT})

\* Lines 290-326: what tab 1 shows for the selected function and chart type.
VistaGastos(gastos, funcao_selecionada, tipo_grafico) ==
    IF funcao_selecionada = "Geral"
    THEN IF tipo_grafico = "Linha - Total Mensal"
         THEN [grafico |-> GroupBySum(ComData(gastos.rows), "Data",
                                      "Valor_Realizado")]
         ELSE [grafico |-> GroupBySum(gastos.rows, "Funcao",
                                      "Valor_Realizado")]
    ELSE LET df_filtrado ==
                 GroupBySum(ComData(SelectSeqIdx(gastos.rows,
                                {i \in 1..Len(gastos.rows) :
                                    gastos.rows[i].Funcao = funcao_selecionada})),
                            "Data", "Valor_Realizado")
             total_func == SeriesSum(df_filtrado)
             total_geral == GastoTotalAnual(gastos)
         IN [grafico |-> df_filtrado,
             funcao |-> funcao_selecionada,
             perc |-> IF total_geral > 0 THEN Fmt1f(100 * total_func, total_geral)
                      ELSE {0}]

\* Lines 270-326.
Tab1 ==
    /\ pc = "tab1"
    /\ \E funcao_selecionada \in
            {"Geral"} \cup {df_gastos.rows[i].Funcao : i \in 1..Len(df_gastos.rows)},
          tipo_grafico \in {"Linha - Total Mensal", "Barras - Comparacao de Funcoes"} :
          abas' = abas @@ ("tab1" :> VistaGastos(df_gastos, funcao_selecionada, tipo_grafico))
    /\ pc' = "tab2"
    /\ UNCHANGED <<data_str, data, arq_gastos, arq_divida, leituras, df_gastos_bruto,
                   df_divida_bruto, df_gastos, df_divida, erros, pergunta, insight>>

\* Line 332: df_divida.sort_values(by='Data'), equal dates keeping their order.
OrdenadaPorData(divida) ==
    LET n == Len(divida.rows)
        Pos(i) == 1 + Cardinality({j \in 1..n :
                        \/ Ord(divida.rows[j][cData]) < Ord(divida.rows[i][cData])
                        \/ (Ord(divida.rows[j][cData]) = Ord(divida.rows[i][cData]) /\ j < i)})
    IN [columns |-> divida.columns,
        rows |-> [k \in 1..n |-> divida.rows[CHOOSE i \in 1..n : Pos(i) = k]]]

\* Line 334: df_divida.groupby('Data')['Valor_Estoque'].sum()
SerieEstoque(divida) ==
    GroupBySum(divida.rows, cData, cValor_Estoque)

\* Lines 328-364.
Tab2 ==
    /\ pc = "tab2"
    /\ IF HasColumn(df_divida, cData)
       THEN /\ df_divida' = OrdenadaPorData(df_divida)
            /\ LET df_linha == SerieEstoque(df_divida) IN
               IF DOMAIN df_linha # {}
               THEN /\ abas' = abas @@ ("tab2" :>
                               [grafico |-> df_linha,
                                data_ult |-> DataMax(df_divida),
                                ultima |-> df_linha[DataMax(df_divida)]])
                    /\ erros' = erros
               ELSE /\ abas' = abas @@ ("tab2" :> [aviso |-> "Dados insuficientes para o grafico."])
                    /\ erros' = erros
       ELSE /\ erros' = Append(erros, "Erro: Coluna de Data nao identificada.")
            /\ UNCHANGED <<df_divida, abas>>
    /\ pc' = "tab3"
    /\ UNCHANGED <<data_str, data, arq_gastos, arq_divida, leituras, df_gastos_bruto,
                   df_divida_bruto, df_gastos, pergunta, insight>>

\* Lines 366-377.
Tab3 ==
    /\ pc = "tab3"
    /\ \E escolha \in {opcoes[i] : i \in 1..Len(opcoes)} :
          /\ pergunta' = escolha
          /\ IF escolha # opcoes[1]
             THEN /\ insight' = gerar_insight_avancado(escolha, df_gastos, df_divida)
                  /\ abas' = abas @@ ("tab3" :> insight')
             ELSE /\ abas' = abas @@ ("tab3" :> [selecione |-> TRUE])
                  /\ UNCHANGED insight
    /\ pc' = "fim"
    /\ UNCHANGED <<data_str, data, arq_gastos, arq_divida, leituras, df_gastos_bruto,
                   df_divida_bruto, df_gastos, df_divida, erros>>

Next ==
    \/ CarregarGastos
    \/ CarregarDivida
    \/ PrepararGastos
    \/ PrepararDivida
    \/ AbrirAbas
    \/ ErroCritico
    \/ Tab1
    \/ Tab2
    \/ Tab3

Spec == Init /\ [][Next]_vars

-----------------------------------------------------------------------------
(* Claims about the page *)

Carregado == pc \notin {"carregar_gastos", "carregar_divida"}
GastosPreparados == pc \notin {"carregar_gastos", "carregar_divida", "preparar_gastos"}
DividaPreparada == pc \in {"pagina", "tab1", "tab2", "tab3", "fim"}

\* pat in s, whatever the case of the letters
ContainsCI(pat, s) == Contains(Lower(pat), Lower(s))

\* Row i of the cleaned debt table is not an aggregate "Total" row.
NaoTotal(i) ==
    ~(/\ HasColumn(df_divida, cTipo_Divida)
      /\ ContainsCI(sTotal, df_divida.rows[i][cTipo_Divida]))

LinhasSemTotal == {i \in 1..Len(df_divida.rows) : NaoTotal(i)}

EstoqueSemTotal(d) ==
    SumOver([i \in 1..Len(df_divida.rows) |-> df_divida.rows[i][cValor_Estoque]],
            {i \in LinhasSemTotal : df_divida.rows[i][cData] = d})

\* C2: debt rows whose type contains "Total" (case-insensitive) are excluded
\* before the stock is summed per date, in the stock-over-time series of tab 2
\* and in the sustainability ratio: for (Internal, 400), (External, 200),
\* (Total, 600) on one date the stock of that date is 600, not 1200.
C2_TotalExcluido ==
    /\ (pc \in {"tab3", "fim"} /\ "tab2" \in DOMAIN abas)
       => abas["tab2"].grafico =
            [d \in {df_divida.rows[i][cData] : i \in LinhasSemTotal} |-> EstoqueSemTotal(d)]
    /\ (pc = "fim" /\ pergunta = opcoes[3] /\ LinhasSemTotal # {}
        /\ insight.tipo = "sustentabilidade")
       => \E i \in LinhasSemTotal :
             /\ \A j \in LinhasSemTotal :
                   Ord(df_divida.rows[j][cData]) <= Ord(df_divida.rows[i][cData])
             /\ insight.divida_total = EstoqueSemTotal(df_divida.rows[i][cData])

\* The money cell parses as a number after the normalisation.
Numerico(cell) == to_numeric(Limpa(Str(cell))) # <<>>

\* C6: a row whose monetary value does not parse as a number after the
\* normalisation is dropped: the cleaned spending table holds one row per
\* month cell that parses, and the cleaned debt table one row per input row
\* whose date and stock value parse.
C6_ValorInvalidoDescartado ==
    /\ (GastosPreparados /\ HasColumn(df_gastos, "Valor_Realizado"))
       => Len(df_gastos.rows) =
            Cardinality({<<i, m>> \in (1..Len(df_gastos_bruto.rows)) \X (1..12) :
                            Numerico(df_gastos_bruto.rows[i][col_meses[m]])})
    /\ (DividaPreparada /\ ~Empty(df_divida) /\ HasColumn(df_divida_bruto, cValor_Estoque))
       => Len(df_divida.rows) =
            Cardinality({i \in 1..Len(df_divida_bruto.rows) :
                            /\ DataDaLinha(df_divida_bruto, df_divida_bruto.rows[i]) # NaT
                            /\ Numerico(df_divida_bruto.rows[i][cValor_Estoque])})

\* C7: a dataset that fails to load or to prepare aborts only its own views:
\* with the debt table empty and the spending table not, the spending view
\* (tab 1) is rendered all the same, and likewise the debt view (tab 2) with
\* the spending table empty.
C7_FalhaIsolada ==
    pc = "fim"
    => /\ (~Empty(df_gastos) /\ Empty(df_divida)) => "tab1" \in DOMAIN abas
       /\ (Empty(df_gastos) /\ ~Empty(df_divida)) => "tab2" \in DOMAIN abas

\* The encodings read_csv was called with for url, in order.
LeiturasDe(url) ==
    LET idx == {i \in 1..Len(leituras) : leituras[i][1] = url}
        l == SelectSeqIdx(leituras, idx)
    IN [i \in 1..Len(l) |-> l[i][2]]

\* C8: carregar_csv first reads the file as UTF-8 and, when that fails, makes
\* exactly one further attempt as Latin-1 before yielding an empty result: a
\* file readable only as Latin-1 yields its rows.
C8_RetentativaLatin1 ==
    Carregado
    => \A par \in {<<URL_GASTOS, arq_gastos, df_gastos_bruto>>,
                   <<URL_DIVIDA, arq_divida, df_divida_bruto>>} :
          /\ LeiturasDe(par[1]) =
               IF par[2].codificacao = "utf-8" THEN <<"utf-8">> ELSE <<"utf-8", "latin-1">>
          /\ par[3] = IF par[2].codificacao = "ausente" THEN DataFrameVazio
                      ELSE par[2].tabela

\* C9: for a non-empty input with a date column, preparar_divida returns
\* without raising the table of exactly the input rows whose date string
\* traduzir_data_pt_br parses, each with Ano the year of its date, also when
\* no date parses (the result is then empty).
C9_DatasInvalidasNaoAbortam ==
    (/\ pc \in {"excecao", "pagina"}
     /\ ~Empty(df_divida_bruto) /\ ColData(df_divida_bruto) # 0)
    => /\ pc = "pagina"
       /\ LET col == df_divida_bruto.columns[ColData(df_divida_bruto)]
              boas == SelectSeqIdx(df_divida_bruto.rows,
                         {i \in 1..Len(df_divida_bruto.rows) :
                             traduzir_data_pt_br(df_divida_bruto.rows[i][col]) # NaT})
          IN /\ Len(df_divida.rows) = Len(boas)
             /\ \A i \in 1..Len(boas) :
                   /\ df_divida.rows[i][col] = boas[i][col]
                   /\ df_divida.rows[i][cAno] = traduzir_data_pt_br(boas[i][col]).ano

\* C10: with no column named exactly 'Valor_Estoque' the stock value is taken
\* from a column that holds stock values, never from the date column: for the
\* columns 'Mes do Estoque', 'Valor do Estoque', every cleaned row's
\* Valor_Estoque is the normalised number of its 'Valor do Estoque' cell.
C10_ColunaDeValor ==
    (pc = "pagina" /\ df_divida_bruto.columns = ColunasDividaDrift /\ ~Empty(df_divida))
    => \A i \in 1..Len(df_divida.rows) :
          df_divida.rows[i][cValor_Estoque]
            = fillna(to_numeric(Limpa(Str(df_divida.rows[i][cValor_do_Estoque]))), 0)

====
